---- MODULE Spec2Model ----
(***************************************************************************)
(* Model of bot.py: a Telegram bot that classifies a text message as a     *)
(* TikTok URL, downloads the video with yt-dlp into a scoped temporary     *)
(* directory and relays it back to the chat.                               *)
(*                                                                         *)
(* Texts are sequences of one-character strings, so that strip(), lower()  *)
(* and the substring test `in` are computed as Python computes them.       *)
(* Handlers are coroutines on one asyncio event loop: a handler runs       *)
(* without interruption from one `await` to the next, and every action of  *)
(* a handler below is such a segment.  download_video is an ordinary       *)
(* (non-async) method called without await: while it runs, the calling     *)
(* task keeps the loop's only thread (variable loop).                      *)
(***************************************************************************)
EXTENDS Integers, Sequences, FiniteSets, TLC

(* ------------------------------ bounds -------------------------------- *)

\* Number of updates the dispatch loop delivers in one run of the model.
MaxTasks == 2

\* Number of text pieces concatenated into one classifier input.
MaxPieces == 3

(* ------------------------- characters and text ------------------------ *)

Whitespace == {" ", "\t", "\n"}

\* str.lower(), on the letters the inputs use.
LowerChar(c) ==
    CASE c = "T" -> "t" [] c = "I" -> "i" [] c = "K" -> "k" [] c = "O" -> "o"
      [] c = "C" -> "c" [] c = "M" -> "m" [] c = "V" -> "v" [] c = "H" -> "h"
      [] c = "P" -> "p" [] OTHER -> c

lower(s) == [i \in 1..Len(s) |-> LowerChar(s[i])]

RECURSIVE lstrip(_)
lstrip(s) == IF s # <<>> /\ Head(s) \in Whitespace THEN lstrip(Tail(s)) ELSE s

RECURSIVE rstrip(_)
rstrip(s) ==
    IF s # <<>> /\ s[Len(s)] \in Whitespace
    THEN rstrip(SubSeq(s, 1, Len(s) - 1))
    ELSE s

\* str.strip(): leading and trailing whitespace removed.
strip(s) == rstrip(lstrip(s))

\* Python's `sub in s` for strings.
Contains(s, sub) ==
    \E i \in 1..(Len(s) - Len(sub) + 1) : SubSeq(s, i, i + Len(sub) - 1) = sub

TIKTOK_COM == <<"t", "i", "k", "t", "o", "k", ".", "c", "o", "m">>
VM_TIKTOK_COM == <<"v", "m", ".">> \o TIKTOK_COM
VT_TIKTOK_COM == <<"v", "t", ".">> \o TIKTOK_COM
HTTP == <<"h", "t", "t", "p">>

\* tiktok_domains (is_tiktok_url)
tiktok_domains == {TIKTOK_COM, VM_TIKTOK_COM, VT_TIKTOK_COM}

\* is_tiktok_url without the lower() call.
is_tiktok_url_case_sensitive(url) == \E domain \in tiktok_domains : Contains(url, domain)

\* TikTokDownloader.is_tiktok_url
is_tiktok_url(url) == \E domain \in tiktok_domains : Contains(lower(url), domain)

\* The keyword test of handle_text.
handle_text_keywords == {HTTP, TIKTOK_COM, VM_TIKTOK_COM, VT_TIKTOK_COM}

has_keyword(message_text) ==
    \E keyword \in handle_text_keywords : Contains(lower(message_text), keyword)


\* filters.COMMAND: the text starts with a command.
is_command(message) == message # <<>> /\ Head(message) = "/"

RECURSIVE first_word(_)
first_word(s) ==
    IF s = <<>> \/ Head(s) \in Whitespace THEN <<>> ELSE <<Head(s)>> \o first_word(Tail(s))

START == <<"s", "t", "a", "r", "t">>
HELP == <<"h", "e", "l", "p">>

\* CommandHandler(command, ...): the message is the command /<command>.
command_filter(message, command) ==
    is_command(message) /\ first_word(message) = <<"/">> \o command

\* filters.TEXT only: the ~filters.COMMAND part left out.
text_filter_with_commands(message) == TRUE

\* filters.TEXT & ~filters.COMMAND
text_filter(message) == ~is_command(message)

(* --------------------------- texts of the bot ------------------------- *)

WELCOME == <<"TikTok Video Downloader Bot">>
HELP_TEXT == <<"Help - TikTok Video Downloader Bot">>
GREETING == <<"Hi! Send me a TikTok video URL and I'll download it for you.">>
USAGE == <<"Please send a valid TikTok URL.">>
PROCESSING == <<"Processing your TikTok video... Please wait.">>
TOO_LARGE == <<"Video is too large to send via Telegram (>50MB).">>
UPLOADING == <<"Uploading video...">>
FAILED == <<"Failed to download video. Please check:">>
GENERIC_ERROR == <<"An error occurred while downloading the video.">>
SUCCESS_MARKER == "Downloaded successfully!"
DEFAULT_TITLE == "TikTok_Video"

\* A caption that leaves the title out.
caption_without_title(video_title) == <<SUCCESS_MARKER>>

\* caption=f"*{video_title}*\n\n Downloaded successfully!"
caption(video_title) == <<"*", video_title, "*", SUCCESS_MARKER>>

\* The upload limit of the size check.
MAX_SIZE == 50 * 1024 * 1024

\* The size check with >= in place of >.
too_large_inclusive(file_size) == file_size >= MAX_SIZE

\* file_size > 50 * 1024 * 1024
too_large(file_size) == file_size > MAX_SIZE

(* ------------------------------ inputs -------------------------------- *)

\* Incoming messages.
UrlPlain == VT_TIKTOK_COM \o <<"/", "x">>
UrlPadded == <<" ", "V", "M", ".", "T", "i", "k", "T", "o", "k", ".", "C", "O", "M", " ">>
HttpOther == HTTP \o <<":", "x">>
Hello == <<"h", "i">>
CmdStart == <<"/">> \o START
CmdHelp == <<"/">> \o HELP
CmdUrl == <<"/", "g", " ">> \o TIKTOK_COM

Messages == {UrlPlain, UrlPadded, HttpOther, Hello, CmdStart, CmdHelp, CmdUrl}

\* Sizes of a downloaded file, around the limit.
Sizes == {MAX_SIZE - 1, MAX_SIZE, MAX_SIZE + 1}

\* The 'title' entry of the info the extractor returns ("": the info has none).
InfoTitles == {"Example", ""}

\* info.get('title', 'TikTok_Video')
get_title(info_title) == IF info_title = "" THEN DEFAULT_TITLE ELSE info_title

\* Values of the BOT_TOKEN environment variable; "None" is os.getenv's None.
EnvTokens == {"None", "123:abc"}

\* Pieces the classifier's inputs are concatenated from.
Pieces ==
    { TIKTOK_COM, <<"T", "i", "k", "T", "o", "k", ".", "C", "O", "M">>,
      <<"v", "m", ".">>, <<"V", "T", ".">>, <<"t", "i", "k">>,
      <<"T", "O", "K", ".", "c", "o", "m">>, <<"t", "i", "k", "t", "o", "k">>,
      <<".", "c", "o", "m">>, HTTP, <<" ">>, <<"x">> }

RECURSIVE Flatten(_)
Flatten(ps) == IF ps = <<>> THEN <<>> ELSE Head(ps) \o Flatten(Tail(ps))

ClassifierInputs == {Flatten(ps) : ps \in UNION {[1..n -> Pieces] : n \in 0..MaxPieces}}

Tasks == 1..MaxTasks

(* ------------------------------- state -------------------------------- *)

VARIABLES
    TOKEN,              \* module global TOKEN
    main_state,         \* "not_run", "NameError", "polling"
    builder_token,      \* what main() handed to Application.builder().token
    handlers,           \* handlers added to the application, in order
    cl_url,             \* the classifier's argument
    cl_state,           \* "ready", "returned"
    cl_result,          \* the classifier's return value
    n_updates,          \* updates delivered so far
    loop,               \* the task that holds the event loop's thread, 0 if none
    pc,                 \* where each handler invocation stands
    text,               \* update.message.text
    url,                \* local url of download_tiktok_video
    calls,              \* chat calls the handler issued, in order, with result
    processing_message, \* what the status message shows in the chat
    temp_dir,           \* the invocation's temporary directory, 0 if none
    dl_calls,           \* arguments of each call of downloader.download_video
    video_title,        \* local video_title of download_video
    dl_output,          \* the directory ydl.download wrote into, 0 if none
    ret,                \* the value download_video returned
    file_size,          \* local file_size, -1 if not read
    outtmpl,            \* downloader.ydl_opts['outtmpl']: its directory, 0 = cwd
    dirs,               \* temporary directories that exist on disk
    files               \* the file in each directory

startup_vars == <<TOKEN, main_state, builder_token, handlers>>
classifier_vars == <<cl_url, cl_state, cl_result>>
task_vars == <<n_updates, loop, pc, text, url, calls, processing_message, temp_dir,
               dl_calls, video_title, dl_output, ret, file_size, outtmpl, dirs, files>>
vars == <<startup_vars, classifier_vars, task_vars>>

NoFile == [ext |-> "", size |-> 0]
NotReturned == [kind |-> "unset", path |-> 0, title |-> ""]
\* `return None, None`
PairNone == [kind |-> "pair", path |-> 0, title |-> ""]
\* falling off the end of the function: the value None
NoneValue == [kind |-> "None", path |-> 0, title |-> ""]

ModuleGlobals == {"os", "requests", "json", "Update", "Application", "CommandHandler",
                  "MessageHandler", "filters", "ContextTypes", "yt_dlp", "tempfile",
                  "logging", "logger", "TOKEN", "TikTokDownloader", "downloader", "start",
                  "help_command", "download_tiktok_video", "handle_text", "main"}

TaskInit ==
    /\ n_updates = 0
    /\ loop = 0
    /\ pc = [t \in Tasks |-> "idle"]
    /\ text = [t \in Tasks |-> <<>>]
    /\ url = [t \in Tasks |-> <<>>]
    /\ calls = [t \in Tasks |-> <<>>]
    /\ processing_message = [t \in Tasks |-> <<>>]
    /\ temp_dir = [t \in Tasks |-> 0]
    /\ dl_calls = [t \in Tasks |-> <<>>]
    /\ video_title = [t \in Tasks |-> ""]
    /\ dl_output = [t \in Tasks |-> 0]
    /\ ret = [t \in Tasks |-> NotReturned]
    /\ file_size = [t \in Tasks |-> -1]
    /\ outtmpl = 0
    /\ dirs = {}
    /\ files = [d \in Tasks |-> NoFile]

StartupInit ==
    /\ TOKEN \in EnvTokens
    /\ main_state = "not_run"
    /\ builder_token = "unset"
    /\ handlers = <<>>

Init ==
    /\ StartupInit
    /\ TaskInit
    /\ cl_url = <<>>
    /\ cl_state = "ready"
    /\ cl_result = FALSE


(* ----------------------------- chat calls ----------------------------- *)

\* A chat call the handler issues and awaits.
Call(op, arg) == [op |-> op, arg |-> arg, result |-> "pending"]

\* The awaited call returned, or raised.
Settle(cs, ok) ==
    [cs EXCEPT ![Len(cs)].result = IF ok THEN "ok" ELSE "raised"]

Issued(t, op, arg) ==
    \E i \in 1..Len(calls[t]) : calls[t][i].op = op /\ calls[t][i].arg = arg

(* ------------------------- temporary directory ------------------------ *)

\* A directory removed by hand at the end of the block: an exception skips it.
with_exit_unless_exception(ds, d, how) == IF how = "exception" THEN ds ELSE ds \ {d}

\* TemporaryDirectory.__exit__: leaving the with block, by falling out of it
\* ("normal"), by return or by an exception, removes the directory.
with_exit(ds, d, how) == ds \ {d}

\* Leaving `with tempfile.TemporaryDirectory() as temp_dir` in task t.
LeaveWith(t, how) ==
    /\ dirs' = with_exit(dirs, temp_dir[t], how)
    /\ files' = [d \in Tasks |-> IF d \in dirs' THEN files[d] ELSE NoFile]

\* The except clause of download_tiktok_video: the generic notice is issued.
ExceptClause(t, cs) ==
    /\ calls' = [calls EXCEPT ![t] = Append(cs, Call("edit_text", GENERIC_ERROR))]
    /\ pc' = [pc EXCEPT ![t] = "generic_edit"]

(* ------------------------------ startup ------------------------------- *)

\* main(): the name BOT_TOKEN is looked up in the module's globals.
main ==
    /\ main_state = "not_run"
    /\ IF "BOT_TOKEN" \in ModuleGlobals
       THEN /\ builder_token' = TOKEN
            /\ handlers' = <<"start", "help_command", "handle_text">>
            /\ main_state' = "polling"
       ELSE /\ main_state' = "NameError"
            /\ UNCHANGED <<builder_token, handlers>>
    /\ UNCHANGED <<TOKEN, classifier_vars, task_vars>>

(* ------------------------------ dispatch ------------------------------ *)

\* The handler the registrations of main() select for a message.
Route(message) ==
    IF command_filter(message, START) THEN "start"
    ELSE IF command_filter(message, HELP) THEN "help_command"
    ELSE IF text_filter(message) THEN "handle_text"
    ELSE "none"

\* Where the selected handler first awaits: the call it issues and its position.
FirstAwait(message) ==
    CASE Route(message) = "start" ->
            [pc |-> "start_reply", call |-> <<Call("reply_text", WELCOME)>>]
      [] Route(message) = "help_command" ->
            [pc |-> "help_reply", call |-> <<Call("reply_text", HELP_TEXT)>>]
      [] Route(message) = "none" ->
            [pc |-> "done", call |-> <<>>]
      [] OTHER ->
            \* handle_text, and download_tiktok_video from it
            IF ~has_keyword(strip(message))
            THEN [pc |-> "greeting_reply", call |-> <<Call("reply_text", GREETING)>>]
            ELSE IF ~is_tiktok_url(strip(message))
            THEN [pc |-> "usage_reply", call |-> <<Call("reply_text", USAGE)>>]
            ELSE [pc |-> "processing_reply", call |-> <<Call("reply_text", PROCESSING)>>]

\* The dispatch loop delivers one update to its handler, which runs to its
\* first await.  The handlers are module-level coroutines: the routing is the
\* one main() registers, and a delivery needs the event loop's thread.  Handlers
\* of different updates interleave only at their awaits.
Dispatch ==
    /\ loop = 0
    /\ n_updates < MaxTasks
    /\ \E message \in Messages :
         LET t == n_updates + 1
             first == FirstAwait(message)
         IN /\ n_updates' = t
            /\ text' = [text EXCEPT ![t] = message]
            /\ url' = [url EXCEPT ![t] =
                         IF first.pc \in {"usage_reply", "processing_reply"}
                         THEN strip(message) ELSE <<>>]
            /\ calls' = [calls EXCEPT ![t] = first.call]
            /\ pc' = [pc EXCEPT ![t] = first.pc]
    /\ UNCHANGED <<startup_vars, classifier_vars, loop, processing_message, temp_dir,
                   dl_calls, video_title, dl_output, ret, file_size, outtmpl, dirs, files>>

\* A handler whose only await is one reply: it returns, or the call's
\* exception leaves the handler.
SingleReply(t, at) ==
    /\ loop = 0
    /\ pc[t] = at
    /\ \E ok \in BOOLEAN :
         /\ calls' = [calls EXCEPT ![t] = Settle(calls[t], ok)]
         /\ pc' = [pc EXCEPT ![t] = IF ok THEN "done" ELSE "raised"]
    /\ UNCHANGED <<startup_vars, classifier_vars, n_updates, loop, text, url,
                   processing_message, temp_dir, dl_calls, video_title, dl_output, ret,
                   file_size, outtmpl, dirs, files>>

start(t) == SingleReply(t, "start_reply")

help_command(t) == SingleReply(t, "help_reply")

\* handle_text, the else branch.
handle_text_greeting(t) == SingleReply(t, "greeting_reply")

\* download_tiktok_video, the text is no TikTok URL.
usage_replied(t) == SingleReply(t, "usage_reply")


(* ----------------------- download_tiktok_video ------------------------ *)

\* The "processing" reply returned.  Outside the try block: its exception
\* leaves the handler.  Otherwise the temporary directory is created and
\* download_video is called (not awaited), which sets the shared outtmpl.
processing_replied(t) ==
    /\ loop = 0
    /\ pc[t] = "processing_reply"
    /\ \E ok \in BOOLEAN, made \in BOOLEAN :
         IF ~ok
         THEN /\ calls' = [calls EXCEPT ![t] = Settle(calls[t], FALSE)]
              /\ pc' = [pc EXCEPT ![t] = "raised"]
              /\ UNCHANGED <<loop, processing_message, temp_dir, dl_calls, outtmpl, dirs>>
         ELSE /\ processing_message' = [processing_message EXCEPT ![t] = PROCESSING]
              /\ IF ~made
                 THEN \* TemporaryDirectory() raised
                      /\ ExceptClause(t, Settle(calls[t], TRUE))
                      /\ UNCHANGED <<loop, temp_dir, dl_calls, outtmpl, dirs>>
                 ELSE /\ calls' = [calls EXCEPT ![t] = Settle(calls[t], TRUE)]
                      /\ temp_dir' = [temp_dir EXCEPT ![t] = t]
                      /\ dirs' = dirs \cup {t}
                      /\ dl_calls' = [dl_calls EXCEPT ![t] =
                                        Append(dl_calls[t], [url |-> url[t], output_path |-> t])]
                      /\ outtmpl' = t
                      /\ loop' = t
                      /\ pc' = [pc EXCEPT ![t] = "extract_info"]
    /\ UNCHANGED <<startup_vars, classifier_vars, n_updates, text, url, video_title,
                   dl_output, ret, file_size, files>>

\* download_video: ydl.extract_info(url, download=False) and info.get('title', ...).
extract_info(t) ==
    /\ loop = t
    /\ pc[t] = "extract_info"
    /\ \/ \E info_title \in InfoTitles :
            /\ video_title' = [video_title EXCEPT ![t] = get_title(info_title)]
            /\ pc' = [pc EXCEPT ![t] = "download"]
            /\ UNCHANGED ret
       \/ \* an exception: logged, `return None, None`
          /\ ret' = [ret EXCEPT ![t] = PairNone]
          /\ pc' = [pc EXCEPT ![t] = "returned"]
          /\ UNCHANGED video_title
    /\ UNCHANGED <<startup_vars, classifier_vars, n_updates, loop, text, url, calls,
                   processing_message, temp_dir, dl_calls, dl_output, file_size, outtmpl,
                   dirs, files>>

\* download_video: ydl.download([url]) writes under the directory outtmpl names.
download(t) ==
    /\ loop = t
    /\ pc[t] = "download"
    /\ dl_output' = [dl_output EXCEPT ![t] = outtmpl]
    /\ \/ \E size \in Sizes :
            /\ files' = [files EXCEPT ![outtmpl] = [ext |-> "mp4", size |-> size]]
            /\ pc' = [pc EXCEPT ![t] = "listdir"]
            /\ UNCHANGED ret
       \/ \* the download ends and leaves no .mp4 file
          /\ files' = [files EXCEPT ![outtmpl] = [ext |-> "part", size |-> 1]]
          /\ pc' = [pc EXCEPT ![t] = "listdir"]
          /\ UNCHANGED ret
       \/ \* an exception: logged, `return None, None`
          /\ ret' = [ret EXCEPT ![t] = PairNone]
          /\ pc' = [pc EXCEPT ![t] = "returned"]
          /\ UNCHANGED files
    /\ UNCHANGED <<startup_vars, classifier_vars, n_updates, loop, text, url, calls,
                   processing_message, temp_dir, dl_calls, video_title, file_size, outtmpl,
                   dirs>>

\* download_video: the loop over os.listdir(output_path).  With no .mp4 file the
\* function ends without a return statement.
find_file(t) ==
    /\ loop = t
    /\ pc[t] = "listdir"
    /\ ret' = [ret EXCEPT ![t] =
                 IF files[temp_dir[t]].ext = "mp4"
                 THEN [kind |-> "pair", path |-> temp_dir[t], title |-> video_title[t]]
                 ELSE NoneValue]
    /\ pc' = [pc EXCEPT ![t] = "returned"]
    /\ UNCHANGED <<startup_vars, classifier_vars, n_updates, loop, text, url, calls,
                   processing_message, temp_dir, dl_calls, video_title, dl_output,
                   file_size, outtmpl, dirs, files>>

\* os.path.exists(video_path)
exists(path) == path \in dirs /\ files[path].ext # ""

\* `video_path, video_title = downloader.download_video(url, temp_dir)` and the
\* branches after it, up to the next await.  Unpacking the value None raises
\* TypeError inside the try block.
after_download(t) ==
    /\ loop = t
    /\ pc[t] = "returned"
    /\ loop' = 0
    /\ IF ret[t].kind = "None"
       THEN /\ LeaveWith(t, "exception")
            /\ ExceptClause(t, calls[t])
            /\ UNCHANGED file_size
       ELSE IF ret[t].path # 0 /\ exists(ret[t].path)
       THEN LET size == files[ret[t].path].size
            IN /\ file_size' = [file_size EXCEPT ![t] = size]
               /\ calls' = [calls EXCEPT ![t] =
                              Append(calls[t],
                                     Call("edit_text",
                                          IF too_large(size) THEN TOO_LARGE ELSE UPLOADING))]
               /\ pc' = [pc EXCEPT ![t] =
                           IF too_large(size) THEN "too_large_edit" ELSE "uploading_edit"]
               /\ UNCHANGED <<dirs, files>>
       ELSE /\ calls' = [calls EXCEPT ![t] = Append(calls[t], Call("edit_text", FAILED))]
            /\ pc' = [pc EXCEPT ![t] = "failed_edit"]
            /\ UNCHANGED <<file_size, dirs, files>>
    /\ UNCHANGED <<startup_vars, classifier_vars, n_updates, text, url, processing_message,
                   temp_dir, dl_calls, video_title, dl_output, ret, outtmpl>>

\* An awaited edit after which the handler leaves the with block and ends:
\* by `return` (too large) or by falling out of the else branch (failed).
FinalEdit(t, at, shown, how) ==
    /\ loop = 0
    /\ pc[t] = at
    /\ \E ok \in BOOLEAN :
         IF ok
         THEN /\ processing_message' = [processing_message EXCEPT ![t] = shown]
              /\ LeaveWith(t, how)
              /\ calls' = [calls EXCEPT ![t] = Settle(calls[t], TRUE)]
              /\ pc' = [pc EXCEPT ![t] = "done"]
         ELSE /\ LeaveWith(t, "exception")
              /\ ExceptClause(t, Settle(calls[t], FALSE))
              /\ UNCHANGED processing_message
    /\ UNCHANGED <<startup_vars, classifier_vars, n_updates, loop, text, url, temp_dir,
                   dl_calls, video_title, dl_output, ret, file_size, outtmpl>>

too_large_edited(t) == FinalEdit(t, "too_large_edit", TOO_LARGE, "return")

failed_edited(t) == FinalEdit(t, "failed_edit", FAILED, "normal")

\* The "uploading" edit returned: the file is opened and reply_video awaited.
uploading_edited(t) ==
    /\ loop = 0
    /\ pc[t] = "uploading_edit"
    /\ \E ok \in BOOLEAN, opened \in BOOLEAN :
         IF ok /\ opened
         THEN /\ processing_message' = [processing_message EXCEPT ![t] = UPLOADING]
              /\ calls' = [calls EXCEPT ![t] =
                             Append(Settle(calls[t], TRUE),
                                    Call("reply_video", caption(ret[t].title)))]
              /\ pc' = [pc EXCEPT ![t] = "video_reply"]
              /\ UNCHANGED <<dirs, files>>
         ELSE \* the edit raised, or open(video_path, 'rb') did
              /\ processing_message' =
                    [processing_message EXCEPT ![t] = IF ok THEN UPLOADING ELSE @]
              /\ LeaveWith(t, "exception")
              /\ ExceptClause(t, Settle(calls[t], ok))
    /\ UNCHANGED <<startup_vars, classifier_vars, n_updates, loop, text, url, temp_dir,
                   dl_calls, video_title, dl_output, ret, file_size, outtmpl>>

\* reply_video returned: processing_message.delete() is awaited.
video_replied(t) ==
    /\ loop = 0
    /\ pc[t] = "video_reply"
    /\ \E ok \in BOOLEAN :
         IF ok
         THEN /\ calls' = [calls EXCEPT ![t] =
                             Append(Settle(calls[t], TRUE), Call("delete", <<>>))]
              /\ pc' = [pc EXCEPT ![t] = "delete"]
              /\ UNCHANGED <<dirs, files>>
         ELSE /\ LeaveWith(t, "exception")
              /\ ExceptClause(t, Settle(calls[t], FALSE))
    /\ UNCHANGED <<startup_vars, classifier_vars, n_updates, loop, text, url,
                   processing_message, temp_dir, dl_calls, video_title, dl_output, ret,
                   file_size, outtmpl>>

\* delete() returned: the with block ends.
status_deleted(t) == FinalEdit(t, "delete", <<"deleted">>, "normal")

\* The generic notice of the except clause returned; its exception leaves the
\* handler.
generic_edited(t) ==
    /\ loop = 0
    /\ pc[t] = "generic_edit"
    /\ \E ok \in BOOLEAN :
         /\ calls' = [calls EXCEPT ![t] = Settle(calls[t], ok)]
         /\ pc' = [pc EXCEPT ![t] = IF ok THEN "done" ELSE "raised"]
         /\ processing_message' =
               [processing_message EXCEPT ![t] = IF ok THEN GENERIC_ERROR ELSE @]
    /\ UNCHANGED <<startup_vars, classifier_vars, n_updates, loop, text, url, temp_dir,
                   dl_calls, video_title, dl_output, ret, file_size, outtmpl, dirs, files>>

(* ------------------------- the classifier alone ----------------------- *)

classify ==
    /\ cl_state = "ready"
    /\ cl_result' = is_tiktok_url(cl_url)
    /\ cl_state' = "returned"
    /\ UNCHANGED <<cl_url, startup_vars, task_vars>>

InitClassifier ==
    /\ StartupInit
    /\ TaskInit
    /\ cl_url \in ClassifierInputs
    /\ cl_state = "ready"
    /\ cl_result = FALSE

(* --------------------------- specifications --------------------------- *)

Next ==
    \/ main
    \/ Dispatch
    \/ \E t \in Tasks : start(t)
    \/ \E t \in Tasks : help_command(t)
    \/ \E t \in Tasks : handle_text_greeting(t)
    \/ \E t \in Tasks : usage_replied(t)
    \/ \E t \in Tasks : processing_replied(t)
    \/ \E t \in Tasks : extract_info(t)
    \/ \E t \in Tasks : download(t)
    \/ \E t \in Tasks : find_file(t)
    \/ \E t \in Tasks : after_download(t)
    \/ \E t \in Tasks : too_large_edited(t)
    \/ \E t \in Tasks : failed_edited(t)
    \/ \E t \in Tasks : uploading_edited(t)
    \/ \E t \in Tasks : video_replied(t)
    \/ \E t \in Tasks : status_deleted(t)
    \/ \E t \in Tasks : generic_edited(t)

Spec == Init /\ [][Next]_vars

SpecClassifier == InitClassifier /\ [][classify]_vars


(* ------------------------ vocabulary of the claims -------------------- *)

\* The upper-case form of a letter of the domain fragments.
UpperChar(c) ==
    CASE c = "t" -> "T" [] c = "i" -> "I" [] c = "k" -> "K" [] c = "o" -> "O"
      [] c = "c" -> "C" [] c = "m" -> "M" [] c = "v" -> "V" [] OTHER -> c

\* s contains the fragment d, each letter in either case.
ContainsAnyCase(s, d) ==
    \E i \in 0..(Len(s) - Len(d)) :
        \A j \in 1..Len(d) : s[i + j] \in {d[j], UpperChar(d[j])}

HasFragment(s) == \E d \in {TIKTOK_COM, VM_TIKTOK_COM, VT_TIKTOK_COM} : ContainsAnyCase(s, d)

\* u is s without its leading and trailing whitespace.
IsStripOf(u, s) ==
    /\ u = <<>> \/ (Head(u) \notin Whitespace /\ u[Len(u)] \notin Whitespace)
    /\ \E a \in 0..(Len(s) - Len(u)) :
          /\ SubSeq(s, a + 1, a + Len(u)) = u
          /\ \A i \in 1..Len(s) : (i <= a \/ i > a + Len(u)) => s[i] \in Whitespace

Finished(t) == pc[t] \in {"done", "raised"}

Ops(t) == [i \in 1..Len(calls[t]) |-> calls[t][i].op]

IsPrefix(a, b) == Len(a) <= Len(b) /\ SubSeq(b, 1, Len(a)) = a

\* No step of the handler raised: every call returned and the except clause
\* was not entered.
NothingRaised(t) ==
    \A i \in 1..Len(calls[t]) :
        calls[t][i].result = "ok" /\ calls[t][i].arg # GENERIC_ERROR

\* download_video returned an existing file of at most 50 MiB.
SmallFile(t) == ret[t].path # 0 /\ file_size[t] \in 0..(50 * 1024 * 1024)

\* download_video returned an existing file of more than 50 MiB.
LargeFile(t) == ret[t].path # 0 /\ file_size[t] > 50 * 1024 * 1024

\* The calls of the success path are issued in their order, the video once.
SuccessOrder(t) ==
    /\ \/ IsPrefix(Ops(t), <<"reply_text", "edit_text", "reply_video", "delete">>)
       \/ /\ Ops(t)[Len(calls[t])] = "edit_text"
          /\ calls[t][Len(calls[t])].arg = GENERIC_ERROR
          /\ IsPrefix(SubSeq(Ops(t), 1, Len(calls[t]) - 1),
                      <<"reply_text", "edit_text", "reply_video", "delete">>)
    /\ Len(calls[t]) >= 2 => calls[t][2].arg = UPLOADING
    /\ Len(calls[t]) >= 3 /\ calls[t][3].op = "reply_video" =>
          /\ \E i \in 1..Len(calls[t][3].arg) : calls[t][3].arg[i] = ret[t].title
          /\ \E i \in 1..Len(calls[t][3].arg) : calls[t][3].arg[i] = SUCCESS_MARKER

\* The handler went through the whole success path.
SuccessDone(t) ==
    /\ Ops(t) = <<"reply_text", "edit_text", "reply_video", "delete">>
    /\ processing_message[t] = <<"deleted">>

(* ------------------------------- claims ------------------------------- *)

\* C1 (as stated): when the downloader returns an existing file of at most
\* 50 MiB with a title T, the handler edits the status message to the
\* "uploading" notice, sends exactly one video whose caption contains T and
\* the success marker, then deletes the status message; the downloader was
\* invoked exactly once, with the message's text and the invocation's own
\* temporary directory.  Stated for the invocations no step of which raised.
C1_Original ==
    \A t \in Tasks :
        SmallFile(t) /\ Finished(t) /\ NothingRaised(t) =>
            /\ SuccessOrder(t)
            /\ SuccessDone(t)
            /\ dl_calls[t] = <<[url |-> text[t], output_path |-> temp_dir[t]]>>

\* C1 (amended): as C1, with the downloader invoked with the message's text
\* stripped of its leading and trailing whitespace; the calls are issued in
\* the stated order in every invocation, and all of them are made when no
\* step of the handler raises.
C1_SuccessPath ==
    \A t \in Tasks :
        SmallFile(t) =>
            /\ SuccessOrder(t)
            /\ Len(dl_calls[t]) = 1
            /\ dl_calls[t][1].output_path = temp_dir[t]
            /\ IsStripOf(dl_calls[t][1].url, text[t])
            /\ Finished(t) /\ NothingRaised(t) => SuccessDone(t)

\* C1 witness: a message with surrounding whitespace went through the whole
\* success path.
C1_Witness ==
    \E t \in Tasks :
        /\ SmallFile(t) /\ pc[t] = "done" /\ NothingRaised(t) /\ SuccessDone(t)
        /\ text[t] = UrlPadded

\* C2 (as stated): for every way the download fails, download_video returns
\* an absent result and the next call of the handler is the edit of the status
\* message to the "Failed to download" text; no video is sent and nothing
\* leaves the handler on that account.
C2_Claim ==
    \A t \in Tasks :
        ret[t].kind # "unset" /\ ret[t].path = 0 =>
            /\ Len(calls[t]) >= 2 =>
                  calls[t][2].op = "edit_text" /\ calls[t][2].arg = FAILED
            /\ \A i \in 1..Len(calls[t]) : calls[t][i].op # "reply_video"

\* C3 (as stated): a file of more than 50 * 1024 * 1024 bytes is never
\* uploaded, the "uploading" notice is never shown, and the handler ends with
\* the status message edited to the "too large" text; a file of at most that
\* size goes on to the upload.
C3_Original ==
    \A t \in Tasks :
        /\ LargeFile(t) =>
              /\ ~ \E i \in 1..Len(calls[t]) : calls[t][i].op = "reply_video"
              /\ ~ Issued(t, "edit_text", UPLOADING)
              /\ Finished(t) => processing_message[t] = TOO_LARGE
        /\ SmallFile(t) => Issued(t, "edit_text", UPLOADING)

\* C3 (amended): a file of more than 50 * 1024 * 1024 bytes is never uploaded,
\* the "uploading" notice is never shown, and the next call of the handler is
\* the edit to the "too large" text; when that edit returns, the handler ends
\* with the status message showing it.  A file of at most that size (that size
\* included) is not rejected: the next call is the "uploading" edit.
C3_SizeLimit ==
    \A t \in Tasks :
        /\ LargeFile(t) =>
              /\ ~ \E i \in 1..Len(calls[t]) : calls[t][i].op = "reply_video"
              /\ ~ Issued(t, "edit_text", UPLOADING)
              /\ calls[t][2].op = "edit_text" /\ calls[t][2].arg = TOO_LARGE
              /\ calls[t][2].result = "ok" =>
                    /\ pc[t] = "done"
                    /\ Len(calls[t]) = 2
                    /\ processing_message[t] = TOO_LARGE
        /\ SmallFile(t) =>
              /\ calls[t][2].op = "edit_text" /\ calls[t][2].arg = UPLOADING
              /\ ~ Issued(t, "edit_text", TOO_LARGE)

\* C3 witness: one handler ended on the "too large" text, another went on to
\* upload a file of exactly 50 * 1024 * 1024 bytes.
C3_Witness ==
    \E t, u \in Tasks :
        /\ LargeFile(t) /\ pc[t] = "done" /\ processing_message[t] = TOO_LARGE
        /\ file_size[u] = 52428800 /\ pc[u] = "video_reply"

\* C4: whatever the outcome, the temporary directory a handler acquired no
\* longer exists when the handler has finished, and the generic error notice is
\* issued only after the directory is gone.
C4_TempDirRemoved ==
    \A t \in Tasks :
        temp_dir[t] # 0 /\ (Finished(t) \/ pc[t] = "generic_edit") =>
            temp_dir[t] \notin dirs

\* C4 witness: one handler that had a directory ended by `return` (too large),
\* another after an exception in the with block.
C4_Witness ==
    \E t, u \in Tasks :
        /\ temp_dir[t] # 0 /\ pc[t] = "done" /\ processing_message[t] = TOO_LARGE
        /\ temp_dir[u] # 0 /\ Finished(u) /\ Issued(u, "edit_text", GENERIC_ERROR)

\* C5 (as stated): no exception of a chat call made while a message is
\* handled leaves the handler.
C5_Claim ==
    \A t \in Tasks : Issued(t, "reply_text", PROCESSING) => pc[t] # "raised"

C7_Classifier ==
    cl_state = "returned" =>
        /\ cl_result \in BOOLEAN
        /\ cl_result <=> HasFragment(cl_url)

\* C7 witness: the classifier accepted a string that holds a fragment only in
\* mixed case.
C7_Witness ==
    /\ cl_state = "returned" /\ cl_result
    /\ ~ is_tiktok_url_case_sensitive(cl_url)

\* The steps a suspended handler takes when its awaited call completes.
Resume(u) ==
    \/ start(u) \/ help_command(u) \/ handle_text_greeting(u) \/ usage_replied(u)
    \/ processing_replied(u) \/ too_large_edited(u) \/ failed_edited(u)
    \/ uploading_edited(u) \/ video_replied(u) \/ status_deleted(u) \/ generic_edited(u)

Awaiting(u) ==
    pc[u] \in {"start_reply", "help_reply", "greeting_reply", "usage_reply",
               "processing_reply", "too_large_edit", "failed_edit", "uploading_edit",
               "video_reply", "delete", "generic_edit"}

InDownload(t) == pc[t] \in {"extract_info", "download", "listdir"}

\* C8 (as stated): while one handler is in its download step the dispatch loop
\* can accept a further update and another handler can take its next step.
C8_Claim ==
    \A t \in Tasks :
        InDownload(t) =>
            /\ n_updates < MaxTasks => ENABLED Dispatch
            /\ \A u \in Tasks \ {t} : Awaiting(u) => ENABLED Resume(u)

\* C9 (as stated): between one invocation's write of the shared output-path
\* option and its download, another invocation that is about to call
\* download_video can write the option.
C9_Claim ==
    \A t, u \in Tasks :
        /\ t # u
        /\ pc[t] \in {"extract_info", "download"}
        /\ pc[u] = "processing_reply"
        => ENABLED processing_replied(u)

\* Every download writes into the directory of the invocation that made it.
OwnOutputPath == \A t \in Tasks : dl_output[t] \in {0, temp_dir[t]}

\* C10 (as stated): main() hands TOKEN to the application builder, adds the
\* three handlers and reaches the polling loop, whether or not the token is set.
C10_Claim ==
    main_state # "not_run" =>
        /\ builder_token = TOKEN
        /\ handlers = <<"start", "help_command", "handle_text">>
        /\ main_state = "polling"

====
